---- MODULE Spec2Model ----
(***************************************************************************)
(* A model of the customer-churn batch pipeline: the validation stage      *)
(* (scripts/validation/validate_data.py), the transformation stage         *)
(* (scripts/transformation/transform_data.py), the versioning stage        *)
(* (scripts/versdion_data.py) and the entry points of all six stages.      *)
(*                                                                         *)
(* A CSV cell is the text the file holds; the empty text is a missing      *)
(* value.  A frame is a sequence of rows or of columns over such cells.    *)
(* Every stage has its own specification over its own variables; the       *)
(* variables of the other stages stay at their initial value.              *)
(***************************************************************************)
EXTENDS Integers, Sequences, FiniteSets, TLC

VARIABLES
    \* validation stage
    raw_file,            \* the raw CSV file being validated
    validation_results,  \* all_validation_results of the validation main
    validated_copy,      \* the file written to data/validated, or NoFile
    vpc,                 \* position of the validation main
    \* transformation stage
    customer_file,       \* data/processed/cleaned_customers_data.csv
    transaction_file,    \* data/processed/cleaned_transactions_data.csv
    features_df,         \* what transform_data returned
    customer_features,   \* the customer_features table
    store_calls,         \* invocations of store_transformed_data
    store_success,       \* what store_transformed_data returned
    tpc,                 \* position of the transformation main
    \* versioning stage
    ver,                 \* the versioning run
    \* stage entry points
    stage,               \* one run of one stage's entry point
    \* ingestion stage
    ing,                 \* one run of the ingestion main
    \* raw storage stage
    rawst,               \* the raw-zone table, the backups and the call in progress
    \* feature store
    fstore,              \* the feature store's tables and the last call on it
    \* file artifacts of all stages
    art                  \* the files written so far and the clock that names them

valVars == <<raw_file, validation_results, validated_copy, vpc>>
trVars == <<customer_file, transaction_file, features_df,
            customer_features, store_calls, store_success, tpc>>
verVars == <<ver>>
stageVars == <<stage>>
ingVars == <<ing>>
rawVars == <<rawst>>
fsVars == <<fstore>>
artVars == <<art>>
vars == <<valVars, trVars, verVars, stageVars, ingVars, rawVars, fsVars, artVars>>

(***************************************************************************)
(* Bounds of the model.                                                    *)
(***************************************************************************)
MaxRows == 2
MaxCust == 2
MaxTxn == 2
MaxMainRows == 1
MaxFiles == 1
MaxStores == 2
MaxAdds == 3
MaxIds == 2
MaxFsRows == 2
MaxClock == 2
MaxWrites == 3

(***************************************************************************)
(* Helpers over sequences and cells.                                       *)
(***************************************************************************)
Range(s) == {s[i] : i \in 1..Len(s)}

\* the sequences of at most n elements of S that are in the order of rank: the
\* rows of a file in one canonical order, one sequence per multiset of rows
RowsUpTo(S, n, rank) ==
    UNION {{s \in [1..k -> S] : \A i \in 1..(k - 1) : rank[s[i]] <= rank[s[i + 1]]} :
           k \in 0..n}

RECURSIVE SumSeq(_)
SumSeq(s) == IF s = <<>> THEN 0 ELSE Head(s) + SumSeq(Tail(s))

RECURSIVE SelectIdx(_, _, _)
\* the indices i of 1..n, in order, for which keep[i] holds
SelectIdx(keep, i, n) ==
    IF i > n THEN <<>>
    ELSE IF keep[i] THEN <<i>> \o SelectIdx(keep, i + 1, n)
    ELSE SelectIdx(keep, i + 1, n)

NoFile == [exists |-> FALSE]

\* the text of a missing value
NA == ""

\* pandas parses a cell as an integer when its text is an integer literal
IntText == [t \in {"-1", "0", "1", "2"} |->
              CASE t = "-1" -> -1 [] t = "0" -> 0 [] t = "1" -> 1 [] t = "2" -> 2]

IsIntCell(c) == c \in DOMAIN IntText

(***************************************************************************)
(* Validation stage: validate_data and its main.                           *)
(***************************************************************************)
ValCells == {NA, "-1", "1", "a@b", "ab"}

\* column layouts of the raw files that are validated
ValSchemas == {<<"customer_id", "email">>,
               <<"transaction_id", "amount">>,
               <<"name", "value">>}

\* a readable raw file with the columns sch, whose cells are cs
RawFrame(sch, cs) ==
    [readable |-> TRUE,
     columns |-> [i \in 1..Len(sch) |-> [name |-> sch[i], cells |-> cs[i]]]]

UnreadableFile == [readable |-> FALSE, columns |-> <<>>]

\* df[column].isnull().sum()
NullCount(cells) == Cardinality({i \in 1..Len(cells) : cells[i] = NA})

\* str(df[column].dtype) as read_csv infers it
Dtype(cells) ==
    IF \A i \in 1..Len(cells) : cells[i] = NA \/ IsIntCell(cells[i])
    THEN IF NullCount(cells) = 0 /\ Len(cells) > 0 THEN "int64" ELSE "float64"
    ELSE "object"

\* df[column].nunique(): distinct non-null values
UniqueCount(cells) == Cardinality(Range(cells) \ {NA})

\* df[column].duplicated().any(): missing values are duplicates of each other
Duplicated(cells) ==
    \E i, j \in 1..Len(cells) : i < j /\ cells[i] = cells[j]

KeyColumns == {"id", "customer_id", "transaction_id"}

HasDuplicates(name, cells) ==
    IF name \in KeyColumns THEN Duplicated(cells) ELSE FALSE

\* 'email' in column.lower(), for the column names of ValSchemas
IsEmailName(name) == name \in {"email"}

ContainsAt(c) == c \in {"a@b"}

AmountColumns == {"amount", "price", "value"}

\* the data_issues list of one column
DataIssues(name, cells) ==
    LET dtype == Dtype(cells)
        invalid_emails == Cardinality({i \in 1..Len(cells) :
                              cells[i] # NA /\ ~ContainsAt(cells[i])})
        negative_values == Cardinality({i \in 1..Len(cells) :
                              IsIntCell(cells[i]) /\ IntText[cells[i]] < 0})
        email_issue ==
            IF IsEmailName(name) /\ dtype = "object" /\ invalid_emails > 0
            THEN <<[n |-> invalid_emails, what |-> "invalid email formats"]>>
            ELSE <<>>
        amount_issue ==
            IF name \in AmountColumns /\ dtype \in {"int64", "float64"}
               /\ negative_values > 0
            THEN <<[n |-> negative_values, what |-> "negative values"]>>
            ELSE <<>>
    IN email_issue \o amount_issue

ValidationStatusNoDup(null_count, has_duplicates, data_issues) ==
    IF null_count = 0 /\ data_issues = <<>> THEN "PASS" ELSE "FAIL"

\* 'PASS' if null_count == 0 and not has_duplicates and not data_issues else 'FAIL'
ValidationStatus(null_count, has_duplicates, data_issues) ==
    IF null_count = 0 /\ ~has_duplicates /\ data_issues = <<>>
    THEN "PASS" ELSE "FAIL"

\* one entry of validation_results
ColumnResult(col) ==
    LET null_count == NullCount(col.cells)
        has_duplicates == HasDuplicates(col.name, col.cells)
        data_issues == DataIssues(col.name, col.cells)
    IN [column_name |-> col.name,
        data_type |-> Dtype(col.cells),
        total_values |-> Len(col.cells),
        null_count |-> null_count,
        unique_values |-> UniqueCount(col.cells),
        has_duplicates |-> has_duplicates,
        data_issues |-> data_issues,
        validation_status |->
            ValidationStatus(null_count, has_duplicates, data_issues)]

\* validate_data(file_path): (validation_results, df), or ([], None) on a failure
validate_data(file) ==
    IF ~file.readable
    THEN [results |-> <<>>, df |-> NoFile]
    ELSE [results |-> [i \in 1..Len(file.columns) |-> ColumnResult(file.columns[i])],
          df |-> [exists |-> TRUE, columns |-> file.columns]]

\* the text to_csv writes for an integer value held in a float64 column
FloatText == [t \in DOMAIN IntText |->
                CASE t = "-1" -> "-1.0" [] t = "0" -> "0.0"
                  [] t = "1" -> "1.0" [] t = "2" -> "2.0"]

\* the rows of the frame without those that hold a missing value
ToCsvDropna(df) ==
    LET n == IF df.columns = <<>> THEN 0 ELSE Len(df.columns[1].cells)
        keep == [i \in 1..n |-> \A c \in 1..Len(df.columns) : df.columns[c].cells[i] # NA]
        idx == SelectIdx(keep, 1, n)
    IN [exists |-> TRUE,
        columns |-> [c \in 1..Len(df.columns) |->
                       [name |-> df.columns[c].name,
                        cells |-> [k \in 1..Len(idx) |-> df.columns[c].cells[idx[k]]]]]]

\* df.to_csv(validated_path, index=False): every row of the frame, a missing
\* value as the empty text, a number of a float64 column with its decimal point
ToCsv(df) ==
    [exists |-> TRUE,
     columns |-> [c \in 1..Len(df.columns) |->
                    [name |-> df.columns[c].name,
                     cells |-> [i \in 1..Len(df.columns[c].cells) |->
                                  LET cell == df.columns[c].cells[i]
                                  IN IF Dtype(df.columns[c].cells) = "float64"
                                        /\ IsIntCell(cell)
                                     THEN FloatText[cell] ELSE cell]]]]

\* the raw file is unreadable, or a frame of at most MaxRows rows: every column
\* has the same number of cells
ValInit ==
    /\ \/ raw_file = UnreadableFile
       \/ \E sch \in ValSchemas, k \in 0..MaxRows :
             \E cs \in [1..Len(sch) -> [1..k -> ValCells]] :
                raw_file = RawFrame(sch, cs)
    /\ validation_results = <<>>
    /\ validated_copy = NoFile
    /\ vpc = "start"

\* the validation main, for the raw file of the directory
ValidateFile ==
    /\ vpc = "start"
    /\ LET r == validate_data(raw_file)
       IN IF r.results # <<>> /\ r.df.exists
          THEN /\ validation_results' = validation_results \o r.results
               /\ validated_copy' = ToCsv(r.df)
          ELSE UNCHANGED <<validation_results, validated_copy>>
    /\ vpc' = "done"
    /\ UNCHANGED <<raw_file, trVars, verVars, stageVars,
                   ingVars, rawVars, fsVars, artVars>>

ValIdle ==
    /\ raw_file = UnreadableFile
    /\ validation_results = <<>>
    /\ validated_copy = NoFile
    /\ vpc = "idle"

(***************************************************************************)
(* Transformation stage: nullable numbers.  A derived numeric field is a   *)
(* rational num/den in lowest terms, or null (pandas NaN / None / NaT).    *)
(***************************************************************************)
NaN == [null |-> TRUE, num |-> 0, den |-> 1]

Abs(n) == IF n < 0 THEN -n ELSE n

RECURSIVE GCD(_, _)
GCD(a, b) == IF b = 0 THEN a ELSE GCD(b, a % b)

\* the quotient n / d of two numbers, d > 0
Frac(n, d) ==
    LET g == GCD(Abs(n), d)
    IN [null |-> FALSE, num |-> n \div g, den |-> d \div g]

Num(n) == Frac(n, 1)

IsNull(x) == x.null

NonNegative(x) == ~x.null /\ x.num >= 0

DaysPerMonth == 30
DaysPerYear == 365

(***************************************************************************)
(* Dates.  A date cell is text; DaysAgo gives (datetime.now() - date).days *)
(* for the texts that parse, a date later than now giving a negative       *)
(* number of days.  Any other text is coerced to NaT.                      *)
(***************************************************************************)
PastDate == "2020-01-01"
FutureDate == "2099-01-01"

DaysAgo == [t \in {PastDate, FutureDate} |->
              IF t = PastDate THEN 60 ELSE -30]

DaysUntil(c) ==
    IF c \in DOMAIN DaysAgo THEN Num(-DaysAgo[c]) ELSE NaN

\* pd.to_datetime(cell, errors='coerce') followed by (now - it).dt.days
DaysSince(c) ==
    IF c \in DOMAIN DaysAgo THEN Num(DaysAgo[c]) ELSE NaN

\* a column divided by a constant: null stays null
DivBy(x, d) == IF x.null THEN NaN ELSE Frac(x.num, x.den * d)

(***************************************************************************)
(* The processed input files.                                              *)
(***************************************************************************)
CustIds == {"c1", "c2"}
JoinCells == {NA, PastDate, FutureDate}
ChurnCells == {"1"}
CustColumns == {"customer_id", "join_date", "churn"}

CustRows(cols) ==
    [customer_id : IF "customer_id" \in cols THEN CustIds ELSE {NA},
     join_date : IF "join_date" \in cols THEN JoinCells ELSE {NA},
     churn : IF "churn" \in cols THEN ChurnCells ELSE {NA}]

\* the canonical order of the rows of the input files
CellOrder == <<NA, "c1", "c2", "-1", "1", "2", PastDate, FutureDate>>

CellRank(c) == CHOOSE i \in 1..Len(CellOrder) : CellOrder[i] = c

CustRank(r) ==
    (CellRank(r.customer_id) * Len(CellOrder) + CellRank(r.join_date)) * Len(CellOrder)
    + CellRank(r.churn)

MissingFile == [exists |-> FALSE, readable |-> FALSE, columns |-> {}, rows |-> <<>>]
CorruptFile == [exists |-> TRUE, readable |-> FALSE, columns |-> {}, rows |-> <<>>]

\* cleaned_customers_data.csv: absent, unparsable, or a frame over some columns
CustomerFiles ==
    {MissingFile, CorruptFile} \cup
    UNION {[exists : {TRUE}, readable : {TRUE}, columns : {cols},
            rows : RowsUpTo(CustRows(cols), MaxCust,
                            [r \in CustRows(cols) |-> CustRank(r)])] :
           cols \in (SUBSET CustColumns) \ {{}}}

AmountCells == {NA, "-1", "2"}
TxnDateCells == {PastDate, FutureDate}
required_columns == {"customer_id", "amount", "transaction_date"}

TxnRows(cols) ==
    [customer_id : IF "customer_id" \in cols THEN CustIds ELSE {NA},
     amount : IF "amount" \in cols THEN AmountCells ELSE {NA},
     transaction_date : IF "transaction_date" \in cols THEN TxnDateCells ELSE {NA}]

TxnRank(r) ==
    (CellRank(r.customer_id) * Len(CellOrder) + CellRank(r.amount)) * Len(CellOrder)
    + CellRank(r.transaction_date)

\* cleaned_transactions_data.csv: absent, unparsable, a frame of at least one
\* row with the three required columns, or a header that lacks some of them
TransactionFiles ==
    {MissingFile, CorruptFile} \cup
    [exists : {TRUE}, readable : {TRUE}, columns : {required_columns},
     rows : RowsUpTo(TxnRows(required_columns), MaxTxn,
                     [r \in TxnRows(required_columns) |-> TxnRank(r)]) \ {<<>>}] \cup
    {[exists |-> TRUE, readable |-> TRUE, columns |-> cols, rows |-> <<>>] :
        cols \in (SUBSET required_columns) \ {required_columns}}

(***************************************************************************)
(* transform_data.  A feature row carries every field the function may     *)
(* compute; the frame's column list says which of them the frame holds.    *)
(* The result also keeps transaction_features, the per-customer aggregate  *)
(* the function computed on its way.                                       *)
(***************************************************************************)
MissingJoinTenureZero == Num(0)

\* features_df['tenure_months'] = None when join_date is missing
MissingJoinTenure == NaN

\* the customer frame with the tenure columns added
TenureStep(cust) ==
    LET has_join == "join_date" \in cust.columns
        row(r) ==
            LET tenure_days == IF has_join THEN DaysSince(r.join_date) ELSE NaN
            IN [customer_id |-> r.customer_id,
                churn |-> r.churn,
                tenure_days |-> tenure_days,
                tenure_months |-> IF has_join THEN DivBy(tenure_days, DaysPerMonth)
                                  ELSE MissingJoinTenure,
                tenure_years |-> IF has_join THEN DivBy(tenure_days, DaysPerYear)
                                 ELSE MissingJoinTenure]
    IN [columns |-> cust.columns \cup
                    (IF has_join THEN {"tenure_days", "tenure_months", "tenure_years"}
                     ELSE {"tenure_months", "tenure_years"}),
        rows |-> [i \in 1..Len(cust.rows) |-> row(cust.rows[i])]]

\* the amounts of customer g's transactions, missing ones skipped, in file order
GroupAmounts(txn, g) ==
    LET keep == [i \in 1..Len(txn.rows) |->
                    txn.rows[i].customer_id = g /\ txn.rows[i].amount # NA]
        idx == SelectIdx(keep, 1, Len(txn.rows))
    IN [k \in 1..Len(idx) |-> IntText[txn.rows[idx[k]].amount]]

GroupSize(txn, g) ==
    Cardinality({i \in 1..Len(txn.rows) : txn.rows[i].customer_id = g})

\* ('amount', 'sum')
AmountSum(txn, g) == SumSeq(GroupAmounts(txn, g))

AmountCountRows(txn, g) == GroupSize(txn, g)

\* ('amount', 'count'): the non-missing amounts
AmountCount(txn, g) == Len(GroupAmounts(txn, g))

\* ('amount', 'mean'): the mean of the non-missing amounts, NaN when there is none
AmountMean(txn, g) ==
    LET a == GroupAmounts(txn, g)
    IN IF Len(a) = 0 THEN NaN ELSE Frac(SumSeq(a), Len(a))

\* ('transaction_date', 'max'): the latest of the group's dates
LastTransactionDate(txn, g) ==
    LET ds == {txn.rows[i].transaction_date : i \in
                  {j \in 1..Len(txn.rows) : txn.rows[j].customer_id = g}}
               \cap DOMAIN DaysAgo
    IN IF ds = {} THEN NA
       ELSE CHOOSE d \in ds : \A e \in ds : DaysAgo[d] <= DaysAgo[e]

\* transactions_df.groupby('customer_id').agg(...).reset_index()
TransactionFeatures(txn) ==
    [g \in {txn.rows[i].customer_id : i \in 1..Len(txn.rows)} \ {NA} |->
        [total_spent |-> Num(AmountSum(txn, g)),
         transaction_count |-> Num(AmountCount(txn, g)),
         avg_transaction_value |-> AmountMean(txn, g),
         last_transaction_date |-> LastTransactionDate(txn, g)]]

NoAggregate ==
    [total_spent |-> NaN, transaction_count |-> NaN,
     avg_transaction_value |-> NaN, last_transaction_date |-> NA]

ZeroAggregate ==
    [total_spent |-> Num(0), transaction_count |-> Num(0),
     avg_transaction_value |-> NaN, last_transaction_date |-> NA]

WithAggregate(r, agg) ==
    [customer_id |-> r.customer_id, churn |-> r.churn,
     tenure_days |-> r.tenure_days, tenure_months |-> r.tenure_months,
     tenure_years |-> r.tenure_years,
     total_spent |-> agg.total_spent,
     transaction_count |-> agg.transaction_count,
     avg_transaction_value |-> agg.avg_transaction_value,
     last_transaction_date |-> agg.last_transaction_date,
     days_since_last_purchase |-> DaysSince(agg.last_transaction_date)]

MergeInner(rows, tf) ==
    LET keep == [i \in 1..Len(rows) |-> rows[i].customer_id \in DOMAIN tf]
        idx == SelectIdx(keep, 1, Len(rows))
    IN [k \in 1..Len(idx) |-> WithAggregate(rows[idx[k]], tf[rows[idx[k]].customer_id])]

MergeLeftFillZero(rows, tf) ==
    [i \in 1..Len(rows) |->
        WithAggregate(rows[i], IF rows[i].customer_id \in DOMAIN tf
                               THEN tf[rows[i].customer_id] ELSE ZeroAggregate)]

\* features_df.merge(transaction_features, on='customer_id', how='left') and the
\* days_since_last_purchase column: a customer without a group gets missing values
MergeLeft(rows, tf) ==
    [i \in 1..Len(rows) |->
        WithAggregate(rows[i], IF rows[i].customer_id \in DOMAIN tf
                               THEN tf[rows[i].customer_id] ELSE NoAggregate)]

SkippedTransactionFeaturesZero(rows) ==
    [i \in 1..Len(rows) |->
        [WithAggregate(rows[i], ZeroAggregate) EXCEPT !.avg_transaction_value = Num(0),
                                                      !.days_since_last_purchase = Num(0)]]

\* the four transaction features set to None on every row
SkippedTransactionFeatures(rows) ==
    [i \in 1..Len(rows) |-> WithAggregate(rows[i], NoAggregate)]

TransactionColumns ==
    {"total_spent", "transaction_count", "avg_transaction_value",
     "days_since_last_purchase"}

NoGroups == [g \in {} |-> NoAggregate]

Raised == [raised |-> TRUE, columns |-> {}, rows |-> <<>>, transaction_features |-> NoGroups]

\* the transaction part of transform_data, on the frame of the tenure step
TransactionStep(f, txn) ==
    IF ~txn.exists
    THEN [raised |-> FALSE, columns |-> f.columns \cup TransactionColumns,
          rows |-> SkippedTransactionFeatures(f.rows),
          transaction_features |-> NoGroups]
    ELSE IF ~txn.readable
    THEN Raised    \* pd.read_csv raises
    ELSE IF required_columns \subseteq txn.columns
    THEN IF "customer_id" \notin f.columns
         THEN Raised    \* merge raises KeyError
         ELSE [raised |-> FALSE,
               columns |-> f.columns \cup TransactionColumns
                           \cup {"last_transaction_date"},
               rows |-> MergeLeft(f.rows, TransactionFeatures(txn)),
               transaction_features |-> TransactionFeatures(txn)]
    ELSE [raised |-> FALSE, columns |-> f.columns \cup TransactionColumns,
          rows |-> SkippedTransactionFeatures(f.rows),
          transaction_features |-> NoGroups]

\* feature_columns, with churn appended
feature_columns ==
    <<"customer_id", "tenure_months", "total_spent", "transaction_count",
      "avg_transaction_value", "days_since_last_purchase", "churn">>

AllFeatureColumns(cols) == feature_columns

\* [col for col in feature_columns if col in features_df.columns]
AvailableColumns(cols) ==
    LET keep == [i \in 1..Len(feature_columns) |-> feature_columns[i] \in cols]
        idx == SelectIdx(keep, 1, Len(feature_columns))
    IN [k \in 1..Len(idx) |-> feature_columns[idx[k]]]

None == [ok |-> FALSE, columns |-> <<>>, work_columns |-> {}, rows |-> <<>>,
         transaction_features |-> NoGroups]

\* transform_data(): the final feature frame, or None
transform_data(cust, txn) ==
    IF ~cust.exists THEN None
    ELSE IF ~cust.readable THEN None
    ELSE LET t == TransactionStep(TenureStep(cust), txn)
         IN IF t.raised THEN None
            ELSE [ok |-> TRUE,
                  columns |-> AvailableColumns(t.columns),
                  work_columns |-> t.columns,
                  rows |-> t.rows,
                  transaction_features |-> t.transaction_features]

TransformInit ==
    /\ customer_file \in CustomerFiles
    /\ transaction_file \in TransactionFiles
    /\ features_df = None
    /\ tpc = "start"

\* one call of transform_data on the processed files
TransformData ==
    /\ tpc = "start"
    /\ features_df' = transform_data(customer_file, transaction_file)
    /\ tpc' = "returned"
    /\ UNCHANGED <<customer_file, transaction_file, customer_features,
                   store_calls, store_success, valVars, verVars, stageVars,
                   ingVars, rawVars, fsVars, artVars>>

(***************************************************************************)
(* The transformation main: create_database_schema, transform_data,        *)
(* store_transformed_data and generate_transformation_summary in turn.     *)
(* A call to the database may fail at any time.                            *)
(***************************************************************************)
TableAbsent == [exists |-> FALSE, columns |-> <<>>, rows |-> <<>>]

\* the table CREATE TABLE IF NOT EXISTS customer_features makes when there is none
EmptyTable ==
    [exists |-> TRUE,
     columns |-> <<"id", "customer_id", "tenure_months", "total_spent",
                   "transaction_count", "avg_transaction_value",
                   "days_since_last_purchase", "churn_probability", "created_at">>,
     rows |-> <<>>]

\* a feature table an earlier run of the stage wrote
OldTable ==
    [exists |-> TRUE,
     columns |-> AvailableColumns({"customer_id", "tenure_months"} \cup TransactionColumns),
     rows |-> SkippedTransactionFeatures(
                 <<[customer_id |-> "c0", churn |-> NA, tenure_days |-> Num(60),
                    tenure_months |-> Num(2), tenure_years |-> Frac(60, DaysPerYear)]>>)]

MainInit ==
    /\ customer_file \in {f \in CustomerFiles : Len(f.rows) <= MaxMainRows}
    /\ transaction_file \in {f \in TransactionFiles : Len(f.rows) <= MaxMainRows}
    /\ features_df = None
    /\ customer_features \in {TableAbsent, OldTable}
    /\ store_calls = 0
    /\ store_success = FALSE
    /\ tpc = "start"

\* create_database_schema(): True, or False when the connection or a statement fails
CreateDatabaseSchema ==
    /\ tpc = "start"
    /\ \E ok \in BOOLEAN :
          IF ok
          THEN /\ customer_features' =
                     IF customer_features.exists THEN customer_features ELSE EmptyTable
               /\ tpc' = "schema_created"
          ELSE /\ UNCHANGED customer_features
               /\ tpc' = "schema_failed"
    /\ UNCHANGED <<customer_file, transaction_file, features_df,
                   store_calls, store_success, valVars, verVars, stageVars,
                   ingVars, rawVars, fsVars, artVars>>

\* features_df = transform_data(), once the schema is there
MainTransformData ==
    /\ tpc = "schema_created"
    /\ features_df' = transform_data(customer_file, transaction_file)
    /\ tpc' = "transform_returned"
    /\ UNCHANGED <<customer_file, transaction_file, customer_features,
                   store_calls, store_success, valVars, verVars, stageVars,
                   ingVars, rawVars, fsVars, artVars>>

MayStoreAlways(f) == TRUE

\* if features_df is not None
MayStore(f) == f.ok

\* store_transformed_data(features_df): to_sql(if_exists='replace') replaces the
\* table; a failure leaves it as it was, or dropped and recreated without rows
StoreTransformedData ==
    /\ tpc = "transform_returned"
    /\ MayStore(features_df)
    /\ store_calls' = store_calls + 1
    /\ \E outcome \in {"stored", "no_connection", "insert_failed"} :
          IF ~features_df.ok \/ outcome = "no_connection"
          THEN store_success' = FALSE /\ UNCHANGED customer_features
          ELSE /\ store_success' = (outcome = "stored")
               /\ customer_features' =
                     [exists |-> TRUE, columns |-> features_df.columns,
                      rows |-> IF outcome = "stored" THEN features_df.rows ELSE <<>>]
    /\ tpc' = "stored"
    /\ UNCHANGED <<customer_file, transaction_file, features_df,
                   valVars, verVars, stageVars,
                   ingVars, rawVars, fsVars, artVars>>

\* the else branch: "Data transformation failed - no features generated"
NoFeaturesGenerated ==
    /\ tpc = "transform_returned"
    /\ ~MayStore(features_df)
    /\ tpc' = "failed"
    /\ UNCHANGED <<customer_file, transaction_file, features_df,
                   customer_features, store_calls, store_success,
                   valVars, verVars, stageVars,
                   ingVars, rawVars, fsVars, artVars>>

\* generate_transformation_summary(features_df) and the final message
GenerateTransformationSummary ==
    /\ tpc = "stored"
    /\ \E summary_success \in BOOLEAN :
          tpc' = IF store_success /\ summary_success
                 THEN "completed" ELSE "completed_with_errors"
    /\ UNCHANGED <<customer_file, transaction_file, features_df,
                   customer_features, store_calls, store_success,
                   valVars, verVars, stageVars,
                   ingVars, rawVars, fsVars, artVars>>

(***************************************************************************)
(* Versioning stage: version_data, with initialize_dvc and                 *)
(* generate_version_report.  Every step runs one external tool, whose exit *)
(* code is any of ExitCodes.                                               *)
(***************************************************************************)
ExitCodes == {0, 1}

\* data_dirs = ['data/raw', 'data/processed', 'data/validated']
data_dirs == <<"data/raw", "data/processed", "data/validated">>

\* a data directory: absent, or holding some files
DataDirs == [exists : BOOLEAN, files : 0..MaxFiles] \ [exists : {FALSE}, files : 1..MaxFiles]

RaisesOnFailureUncheckedCommit(tool) == tool \in {"dvc init", "git add"}

\* the tools run with check=True: a non-zero exit raises CalledProcessError
RaisesOnFailure(tool) == tool \in {"dvc init", "git add", "git commit"}

\* the first step at or after directory d: its first file, its git add when it
\* has no file, or the commit after the last directory
RECURSIVE EnterDir(_, _)
EnterDir(dirs, d) ==
    IF d > Len(data_dirs) THEN [pc |-> "commit", d |-> d, f |-> 1]
    ELSE IF ~dirs[d].exists THEN EnterDir(dirs, d + 1)
    ELSE IF dirs[d].files = 0 THEN [pc |-> "git_add", d |-> d, f |-> 1]
    ELSE [pc |-> "dvc_add", d |-> d, f |-> 1]

VerInit ==
    \E dirs \in [1..Len(data_dirs) -> DataDirs], dvc_dir \in BOOLEAN :
       ver = [pc |-> "check", dirs |-> dirs, dvc_dir |-> dvc_dir,
              d |-> 1, f |-> 1, tracked |-> {}, commits |-> 0,
              report |-> "none", result |-> "running",
              last |-> [tool |-> "none", rc |-> 0]]

\* the stage returns False: the except clauses of initialize_dvc and version_data
Abort(v, tool, rc) ==
    [v EXCEPT !.pc = "done", !.result = "False", !.last = [tool |-> tool, rc |-> rc]]

\* one tool invocation at position pc, going on to v when it does not raise
Invoke(tool, rc, v) ==
    /\ ver' = IF rc # 0 /\ RaisesOnFailure(tool)
              THEN Abort(ver, tool, rc)
              ELSE [v EXCEPT !.last = [tool |-> tool, rc |-> rc]]
    /\ UNCHANGED <<valVars, trVars, stageVars,
                   ingVars, rawVars, fsVars, artVars>>

\* check_dvc_initialized(): dvc status, then whether .dvc exists
CheckDvcInitialized ==
    /\ ver.pc = "check"
    /\ \E rc \in ExitCodes :
          Invoke("dvc status", rc,
                 IF ver.dvc_dir
                 THEN [ver EXCEPT !.pc = EnterDir(ver.dirs, 1).pc,
                                  !.d = EnterDir(ver.dirs, 1).d]
                 ELSE [ver EXCEPT !.pc = "dvc_init"])

DvcInit ==
    /\ ver.pc = "dvc_init"
    /\ \E rc \in ExitCodes :
          Invoke("dvc init", rc, [ver EXCEPT !.pc = "init_git_add", !.dvc_dir = TRUE])

InitGitAdd ==
    /\ ver.pc = "init_git_add"
    /\ \E rc \in ExitCodes :
          Invoke("git add", rc, [ver EXCEPT !.pc = "init_git_commit"])

InitGitCommit ==
    /\ ver.pc = "init_git_commit"
    /\ \E rc \in ExitCodes :
          Invoke("git commit", rc,
                 [ver EXCEPT !.pc = EnterDir(ver.dirs, 1).pc,
                             !.d = EnterDir(ver.dirs, 1).d,
                             !.commits = @ + 1])

\* dvc add of one file: tracked on exit code 0, logged and passed over otherwise
DvcAdd ==
    /\ ver.pc = "dvc_add"
    /\ \E rc \in ExitCodes :
          LET next == IF ver.f < ver.dirs[ver.d].files
                      THEN [ver EXCEPT !.f = @ + 1]
                      ELSE [ver EXCEPT !.pc = "git_add"]
          IN Invoke("dvc add", rc,
                    IF rc = 0
                    THEN [next EXCEPT !.tracked = @ \cup {<<ver.d, ver.f>>}]
                    ELSE next)

\* git add of the directory's .dvc files, after its walk
GitAdd ==
    /\ ver.pc = "git_add"
    /\ \E rc \in ExitCodes :
          LET e == EnterDir(ver.dirs, ver.d + 1)
          IN Invoke("git add", rc, [ver EXCEPT !.pc = e.pc, !.d = e.d, !.f = e.f])

GitCommit ==
    /\ ver.pc = "commit"
    /\ \E rc \in ExitCodes :
          Invoke("git commit", rc, [ver EXCEPT !.pc = "report", !.commits = @ + 1])

\* generate_version_report(versioned_files): dvc status, then the report file,
\* whose writing may fail; version_data returns True either way
GenerateVersionReport ==
    /\ ver.pc = "report"
    /\ \E rc \in ExitCodes, written \in BOOLEAN :
          Invoke("dvc status", rc,
                 [ver EXCEPT !.pc = "done", !.result = "True",
                             !.report = IF written THEN "written" ELSE "failed"])

(***************************************************************************)
(* The entry points of the six stages.  A main is the sequence of the      *)
(* operations it performs that can fail: what fails (a database call, a    *)
(* file read or write, a directory listing or creation, an external        *)
(* tool), whether the failure is caught by a try block around it, and the  *)
(* operation the main goes on with after a caught failure.                 *)
(***************************************************************************)
Op(op, kind, caught, on_fail) ==
    [op |-> op, kind |-> kind, caught |-> caught, on_fail |-> on_fail]

\* ingest_data.py: makedirs, ingest_from_sql, ingest_from_api
IngestionMain ==
    <<Op("os.makedirs", "mkdir", FALSE, 0),
      Op("ingest_from_sql: read_sql", "db", TRUE, 4),
      Op("ingest_from_sql: to_csv", "write", TRUE, 4),
      Op("ingest_from_api: requests.get", "api", TRUE, 6),
      Op("ingest_from_api: to_csv", "write", TRUE, 6)>>

\* store_raw_data.py main, for one raw file
RawStorageMain ==
    <<Op("RawDataStorage: os.makedirs", "mkdir", FALSE, 0),
      Op("os.listdir", "listdir", FALSE, 0),
      Op("store_in_database: read_csv", "read", TRUE, 6),
      Op("store_in_database: to_sql", "db", TRUE, 6),
      Op("store_as_backup: copy2", "write", TRUE, 6)>>

\* validate_data.py main, for one raw file
ValidationMain ==
    <<Op("os.makedirs", "mkdir", FALSE, 0),
      Op("os.listdir", "listdir", FALSE, 0),
      Op("validate_data: read_csv", "read", TRUE, 6),
      Op("df.to_csv", "write", FALSE, 0),
      Op("generate_quality_report: to_csv", "write", FALSE, 0)>>

\* transform_data.py main
TransformationMain ==
    <<Op("create_database_schema", "db", TRUE, 5),
      Op("transform_data: read_csv", "read", TRUE, 5),
      Op("store_transformed_data: to_sql", "db", TRUE, 4),
      Op("generate_transformation_summary: to_csv", "write", TRUE, 5)>>

\* feature_store.py main
FeatureStoreMain ==
    <<Op("init_feature_store", "db", TRUE, 9),
      Op("populate_feature_metadata: FeatureStore()", "db", TRUE, 9),
      Op("add_feature_metadata", "db", TRUE, 4),
      Op("FeatureStore()", "db", FALSE, 0),
      Op("get_features", "db", TRUE, 6),
      Op("get_feature_metadata", "db", TRUE, 7),
      Op("os.makedirs", "mkdir", FALSE, 0),
      Op("metadata.to_csv", "write", FALSE, 0)>>

\* versdion_data.py main
VersioningMain ==
    <<Op("initialize_dvc", "tool", TRUE, 5),
      Op("dvc add", "tool", TRUE, 3),
      Op("git add, git commit", "tool", TRUE, 5),
      Op("generate_version_report", "write", TRUE, 5)>>

StageNames == {"ingestion", "raw_storage", "validation", "transformation",
               "feature_store", "versioning"}

StageProgram(name) ==
    CASE name = "ingestion" -> IngestionMain
      [] name = "raw_storage" -> RawStorageMain
      [] name = "validation" -> ValidationMain
      [] name = "transformation" -> TransformationMain
      [] name = "feature_store" -> FeatureStoreMain
      [] name = "versioning" -> VersioningMain

StageInit ==
    \E name \in StageNames :
       stage = [pc |-> "running", name |-> name, at |-> 1, failures |-> <<>>,
                escaped |-> "none"]

AtOp == StageProgram(stage.name)[stage.at]

Running == stage.pc = "running" /\ stage.at <= Len(StageProgram(stage.name))

\* the operation succeeds and the main goes on
OpSucceeds ==
    /\ Running
    /\ stage' = [stage EXCEPT !.at = @ + 1]
    /\ UNCHANGED <<valVars, trVars, verVars, ingVars, rawVars, fsVars, artVars>>

\* the operation fails inside a try block: logged, and the main goes on
OpFailsCaught ==
    /\ Running
    /\ AtOp.caught
    /\ stage' = [stage EXCEPT !.at = AtOp.on_fail,
                              !.failures = Append(@, AtOp.op)]
    /\ UNCHANGED <<valVars, trVars, verVars, ingVars, rawVars, fsVars, artVars>>

\* the operation fails outside any try block: the exception leaves the main
OpFailsUncaught ==
    /\ Running
    /\ ~AtOp.caught
    /\ stage' = [stage EXCEPT !.pc = "exception", !.escaped = AtOp.kind,
                              !.failures = Append(@, AtOp.op)]
    /\ UNCHANGED <<valVars, trVars, verVars, ingVars, rawVars, fsVars, artVars>>

\* the main reaches its end and reports on the console
MainEnds ==
    /\ stage.pc = "running"
    /\ stage.at > Len(StageProgram(stage.name))
    /\ stage' = [stage EXCEPT !.pc = "reported"]
    /\ UNCHANGED <<valVars, trVars, verVars, ingVars, rawVars, fsVars, artVars>>

(***************************************************************************)
(* Ingestion stage: ingest_from_sql, ingest_from_api and the main.         *)
(***************************************************************************)
HttpOk == 200

\* the status codes a response can carry
HttpStatus == {HttpOk, 201, 404, 500}

SqlOutcomes == {"connect_failed", "query_failed", "write_failed", "close_failed", "ok"}

ApiOutcomes == {"request_raised", "bad_status", "json_failed", "write_failed", "ok"}

NoResponse == 0

IngInit ==
    \E n \in 0..MaxRows, m \in 0..MaxRows :
       ing = [pc |-> "start",
              sql_rows |-> n,          \* rows of the customers table
              api_records |-> m,       \* records the API serves
              sql_calls |-> 0, api_calls |-> 0, requests |-> 0,
              sql_outcome |-> "none", api_outcome |-> "none",
              status_code |-> NoResponse,
              sql_success |-> FALSE, api_success |-> FALSE,
              files |-> {},            \* raw snapshots written by this run
              report |-> "none"]

\* os.makedirs('../data/raw', exist_ok=True)
IngMakedirs ==
    /\ ing.pc = "start"
    /\ \E ok \in BOOLEAN :
          ing' = [ing EXCEPT !.pc = IF ok THEN "sql" ELSE "exception"]
    /\ UNCHANGED <<valVars, trVars, verVars, stageVars, rawVars, fsVars, artVars>>

\* the snapshot to_csv writes
Snapshot(source, n) == [source |-> source, rows |-> n]

\* ingest_from_sql(): every exception is caught and turned into False
IngestFromSql ==
    /\ ing.pc = "sql"
    /\ \E o \in SqlOutcomes :
          ing' = [ing EXCEPT
                    !.pc = "api",
                    !.sql_calls = @ + 1,
                    !.sql_outcome = o,
                    !.files = IF o \in {"close_failed", "ok"}
                              THEN @ \cup {Snapshot("customers", ing.sql_rows)}
                              ELSE @,
                    !.sql_success = (o = "ok")]
    /\ UNCHANGED <<valVars, trVars, verVars, stageVars, rawVars, fsVars, artVars>>

\* response.status_code == 200
IsHttpSuccess(status) == status = HttpOk

\* ingest_from_api(): one request, and a file only after a successful response
IngestFromApi ==
    /\ ing.pc = "api"
    /\ \E o \in ApiOutcomes, st \in HttpStatus :
          /\ o = "request_raised" => st = HttpOk
          /\ o = "bad_status" <=> (o # "request_raised" /\ ~IsHttpSuccess(st))
          /\ ing' = [ing EXCEPT
                       !.pc = "report",
                       !.api_calls = @ + 1,
                       !.requests = @ + 1,
                       !.api_outcome = o,
                       !.status_code = IF o = "request_raised" THEN NoResponse ELSE st,
                       !.files = IF o = "ok"
                                 THEN @ \cup {Snapshot("transactions", ing.api_records)}
                                 ELSE @,
                       !.api_success = (o = "ok")]
    /\ UNCHANGED <<valVars, trVars, verVars, stageVars, rawVars, fsVars, artVars>>

IngestionSucceededEither(sql_success, api_success) == sql_success \/ api_success

\* if sql_success and api_success
IngestionSucceeded(sql_success, api_success) == sql_success /\ api_success

\* the last log line of the main
IngReport ==
    /\ ing.pc = "report"
    /\ ing' = [ing EXCEPT
                 !.pc = "done",
                 !.report = IF IngestionSucceeded(ing.sql_success, ing.api_success)
                            THEN "completed successfully"
                            ELSE "completed with errors"]
    /\ UNCHANGED <<valVars, trVars, verVars, stageVars, rawVars, fsVars, artVars>>

(***************************************************************************)
(* Raw storage stage: RawDataStorage.store_in_database and                 *)
(* store_as_backup, called again and again on one raw file and table.      *)
(***************************************************************************)
RawCells == {"a", "b"}

NoCall == [read_ok |-> FALSE, appended |-> FALSE, backup |-> "not attempted",
           returned |-> "nothing"]

RawInit ==
    \E k \in 0..MaxRows : \E rows \in [1..k -> RawCells] :
       rawst = [pc |-> "call",
                file |-> rows,        \* the rows of the raw CSV file
                table |-> <<>>,       \* the raw-zone table
                backups |-> <<>>,     \* the backup copies, in the order written
                now |-> 0,            \* datetime.now(), in seconds
                calls |-> 0,
                stamps |-> <<>>,      \* the ingestion timestamp of each append
                last |-> NoCall]

ToSqlReplace(table, batch) == batch

\* df.to_sql(table_name, engine, if_exists='append')
ToSqlAppend(table, batch) == table \o batch

\* store_in_database up to the call of store_as_backup: read the file, stamp
\* every row, append; an exception anywhere is logged and False is returned
ReadAndAppend ==
    /\ rawst.pc = "call"
    /\ rawst.calls < MaxStores
    /\ \E tick \in 0..1, read_ok \in BOOLEAN, append_ok \in BOOLEAN :
          LET t == rawst.now + tick
              batch == [i \in 1..Len(rawst.file) |->
                          [row |-> rawst.file[i], ingestion_timestamp |-> t]]
          IN /\ ~read_ok => ~append_ok
             /\ rawst' =
                  IF read_ok /\ append_ok
                  THEN [rawst EXCEPT
                          !.pc = "backup", !.now = t, !.calls = @ + 1,
                          !.table = ToSqlAppend(@, batch),
                          !.stamps = Append(@, t),
                          !.last = [read_ok |-> TRUE, appended |-> TRUE,
                                    backup |-> "not attempted",
                                    returned |-> "nothing"]]
                  ELSE [rawst EXCEPT
                          !.now = t, !.calls = @ + 1,
                          !.last = [read_ok |-> read_ok, appended |-> FALSE,
                                    backup |-> "not attempted",
                                    returned |-> "False"]]
    /\ UNCHANGED <<valVars, trVars, verVars, stageVars, ingVars, fsVars, artVars>>

StoreResultNeedsBackup(backup_ok) == IF backup_ok THEN "True" ELSE "False"

\* return True, after store_as_backup has caught its own exception
StoreResult(backup_ok) == "True"

\* store_as_backup and the return of store_in_database
StoreAsBackup ==
    /\ rawst.pc = "backup"
    /\ \E tick \in 0..1, backup_ok \in BOOLEAN :
          rawst' = [rawst EXCEPT
                      !.pc = "call", !.now = @ + tick,
                      !.backups = IF backup_ok
                                  THEN Append(@, [timestamp |-> rawst.now + tick,
                                                  rows |-> rawst.file])
                                  ELSE @,
                      !.last.backup = IF backup_ok THEN "stored" ELSE "failed",
                      !.last.returned = StoreResult(backup_ok)]
    /\ UNCHANGED <<valVars, trVars, verVars, stageVars, ingVars, fsVars, artVars>>

(***************************************************************************)
(* Feature store: add_feature_metadata on the feature_metadata table that  *)
(* init_feature_store creates, and get_features on customer_features.      *)
(***************************************************************************)
\* The text columns are declared VARCHAR(255) with no collation, so the
\* server's default decides how two names compare: byte by byte, or without
\* regard to case (the default of a MySQL server).
Collations == {"binary", "case_insensitive"}

Fold == [s \in {"", "churn", "Churn", "tenure", "c1", "C1", "c2"} |->
            CASE s = "Churn" -> "churn" [] s = "C1" -> "c1" [] OTHER -> s]

\* the comparison of two values of a text column under the collation
KeyEq(a, b, collation) ==
    IF collation = "case_insensitive" THEN Fold[a] = Fold[b] ELSE a = b

FeatureNames == {"churn", "Churn", "tenure"}
Descriptions == {"d1", "d2"}
DataTypes == {"INT", "FLOAT"}

FsIds == {"c1", "C1", "c2"}

\* the arguments given to get_features
IdArguments ==
    {[type |-> "None", value |-> <<>>]} \cup
    [type : {"str"}, value : FsIds \cup {""}] \cup
    [type : {"list"}, value : UNION {[1..k -> FsIds] : k \in 0..MaxIds}]

NotCalled == [kind |-> "none", rows |-> <<>>, arg |-> [type |-> "None", value |-> <<>>],
              failed |-> FALSE]

\* an initialized store: feature_metadata exists and is empty
FsInit(tables) ==
    \E c \in Collations, t \in tables :
       fstore = [pc |-> "ready", collation |-> c,
                 feature_metadata |-> <<>>,
                 customer_features |-> t,
                 calls |-> <<>>,        \* the calls that returned True
                 got |-> NotCalled]     \* what the last get_features returned

InsertAlways(table, row, collation) == Append(table, row)

\* INSERT ... ON DUPLICATE KEY UPDATE description, data_type, source: the
\* unique key is feature_name
Upsert(table, row, collation) ==
    IF \E i \in 1..Len(table) : KeyEq(table[i].feature_name, row.feature_name, collation)
    THEN [i \in 1..Len(table) |->
            IF KeyEq(table[i].feature_name, row.feature_name, collation)
            THEN [table[i] EXCEPT !.description = row.description,
                                  !.data_type = row.data_type,
                                  !.source = row.source]
            ELSE table[i]]
    ELSE Append(table, row)

\* add_feature_metadata: True after the commit, False after any exception
AddFeatureMetadata ==
    /\ fstore.pc = "ready"
    /\ ~fstore.customer_features.exists
    /\ Len(fstore.calls) < MaxAdds
    /\ \E n \in FeatureNames, d \in Descriptions, t \in DataTypes, ok \in BOOLEAN :
          LET row == [feature_name |-> n, description |-> d, data_type |-> t,
                      source |-> "s"]
          IN fstore' =
               IF ok
               THEN [fstore EXCEPT
                       !.feature_metadata = Upsert(@, row, fstore.collation),
                       !.calls = Append(@, row)]
               ELSE fstore
    /\ UNCHANGED <<valVars, trVars, verVars, stageVars, ingVars, rawVars, artVars>>

Frame(rows) == [kind |-> "frame", rows |-> rows]

MissingTableRaises == [kind |-> "raised", rows |-> <<>>]

\* return pd.DataFrame(), when SHOW TABLES finds no customer_features
MissingTableResult == Frame(<<>>)

TruthyNotNone(arg) == arg.type # "None"

\* if customer_ids:
Truthy(arg) ==
    \/ arg.type = "str" /\ arg.value # ""
    \/ arg.type = "list" /\ arg.value # <<>>

\* get_features(customer_ids) on the table, under the collation; failed says
\* that a statement raised, which the except branch turns into an empty frame
get_features(table, arg, collation, failed) ==
    IF failed THEN Frame(<<>>)
    ELSE IF ~table.exists THEN MissingTableResult
    ELSE IF Truthy(arg)
    THEN LET customer_ids == IF arg.type = "str" THEN <<arg.value>> ELSE arg.value
             Selected(r) == \E k \in 1..Len(customer_ids) :
                               KeyEq(r.customer_id, customer_ids[k], collation)
         IN Frame(SelectSeq(table.rows, Selected))
    ELSE Frame(table.rows)

\* the customer_features table: absent, or some rows
FeatureTables ==
    {[exists |-> FALSE, rows |-> <<>>]} \cup
    [exists : {TRUE},
     rows : UNION {[1..k -> [customer_id : FsIds, churn : {"1"}]] : k \in 0..MaxFsRows}]

GetFeatures ==
    /\ fstore.pc = "ready"
    /\ fstore.got.kind = "none"
    /\ \E arg \in IdArguments, failed \in BOOLEAN :
          LET r == get_features(fstore.customer_features, arg,
                                fstore.collation, failed)
          IN fstore' = [fstore EXCEPT
                          !.got = [kind |-> r.kind, rows |-> r.rows,
                                   arg |-> arg, failed |-> failed]]
    /\ UNCHANGED <<valVars, trVars, verVars, stageVars, ingVars, rawVars, artVars>>

(***************************************************************************)
(* The file artifacts of the stages: which path each stage writes, run     *)
(* after run.  A timestamp in a name is datetime.now() in whole seconds.   *)
(***************************************************************************)
NoStamp == -1

\* a path: its directory, the source it is named after, the timestamp in the
\* name of the raw snapshot, and the timestamp the writing stage adds
Path(dir, source, snapshot, at) ==
    [dir |-> dir, source |-> source, snapshot |-> snapshot, at |-> at]

ArtInit ==
    art = [pc |-> "run", now |-> 0, writes |-> 0,
           files |-> {},          \* the paths that hold a file
           overwritten |-> {}]    \* the paths written again after that

\* writing to a path: a path that holds a file already is overwritten
WriteFile(a, path) ==
    [a EXCEPT !.writes = @ + 1,
              !.files = @ \cup {path},
              !.overwritten = IF path \in a.files THEN @ \cup {path} ELSE @]

\* time passes between two writes
ArtTick ==
    /\ art.pc = "run" /\ art.now < MaxClock
    /\ art' = [art EXCEPT !.now = @ + 1]
    /\ UNCHANGED <<valVars, trVars, verVars, stageVars, ingVars, rawVars, fsVars>>

\* ingest_from_sql / ingest_from_api: data/raw/<source>_<timestamp>.csv
ArtIngest ==
    /\ art.pc = "run" /\ art.writes < MaxWrites
    /\ \E source \in {"customers", "transactions"} :
          art' = WriteFile(art, Path("raw", source, art.now, NoStamp))
    /\ UNCHANGED <<valVars, trVars, verVars, stageVars, ingVars, rawVars, fsVars>>

\* store_as_backup: raw_storage/<table>/<timestamp>/<name of the raw file>
ArtBackup ==
    /\ art.pc = "run" /\ art.writes < MaxWrites
    /\ \E f \in art.files :
          /\ f.dir = "raw"
          /\ art' = WriteFile(art, Path("raw_storage", f.source, f.snapshot, art.now))
    /\ UNCHANGED <<valVars, trVars, verVars, stageVars, ingVars, rawVars, fsVars>>

\* the validation main: data/validated/<name of the raw file>
ArtValidatedCopy ==
    /\ art.pc = "run" /\ art.writes < MaxWrites
    /\ \E f \in art.files :
          /\ f.dir = "raw"
          /\ art' = WriteFile(art, Path("validated", f.source, f.snapshot, NoStamp))
    /\ UNCHANGED <<valVars, trVars, verVars, stageVars, ingVars, rawVars, fsVars>>

\* the reports: <directory>/<report name>_<timestamp>.<ext>
ArtReport ==
    /\ art.pc = "run" /\ art.writes < MaxWrites
    /\ \E dir \in {"validation_reports", "transformation_reports",
                   "version_reports", "feature_reports"} :
          art' = WriteFile(art, Path(dir, "report", NoStamp, art.now))
    /\ UNCHANGED <<valVars, trVars, verVars, stageVars, ingVars, rawVars, fsVars>>

(***************************************************************************)
(* The stages at rest, and the specification of each stage.                *)
(***************************************************************************)
TrIdle ==
    /\ customer_file = MissingFile
    /\ transaction_file = MissingFile
    /\ features_df = None
    /\ customer_features = TableAbsent
    /\ store_calls = 0
    /\ store_success = FALSE
    /\ tpc = "idle"

VerIdle == ver = [pc |-> "idle"]

StageIdle == stage = [pc |-> "idle"]

IngIdle == ing = [pc |-> "idle"]

RawIdle == rawst = [pc |-> "idle"]

FsIdle == fstore = [pc |-> "idle"]

ArtIdle == art = [pc |-> "idle"]

\* the stages that came later in the pipeline's description are not running
OthersIdle == IngIdle /\ RawIdle /\ FsIdle /\ ArtIdle

ValidateInit == ValInit /\ TrIdle /\ VerIdle /\ StageIdle /\ OthersIdle

ValNext == ValidateFile

SpecValidate == ValidateInit /\ [][ValNext]_vars

FnInit ==
    /\ TransformInit
    /\ customer_features = TableAbsent
    /\ store_calls = 0
    /\ store_success = FALSE
    /\ ValIdle /\ VerIdle /\ StageIdle /\ OthersIdle

FnNext == TransformData

\* transform_data as a function of the two processed files
SpecTransform == FnInit /\ [][FnNext]_vars

(***************************************************************************)
(* Claims about validate_data, under SpecValidate.                         *)
(***************************************************************************)
\* C1: every column of a readable file gets one result, and its
\* validation_status is PASS exactly when its null_count is 0, its duplicate
\* flag is false and its issue list is empty; otherwise it is FAIL.
C1_StatusPassIffClean ==
    /\ vpc = "done" /\ raw_file.readable =>
          /\ Len(validation_results) = Len(raw_file.columns)
          /\ \A i \in 1..Len(validation_results) :
                validation_results[i].column_name = raw_file.columns[i].name
    /\ \A i \in 1..Len(validation_results) :
          LET r == validation_results[i]
              clean == r.null_count = 0 /\ ~r.has_duplicates /\ r.data_issues = <<>>
          IN /\ r.validation_status \in {"PASS", "FAIL"}
             /\ r.validation_status = "PASS" <=> clean
             /\ r.validation_status = "FAIL" <=>
                   (r.null_count > 0 \/ r.has_duplicates \/ r.data_issues # <<>>)

\* a file with a column that passes and a column that fails on duplicates alone
C1_Witness ==
    /\ vpc = "done"
    /\ \E i, j \in 1..Len(validation_results) :
          /\ validation_results[i].validation_status = "PASS"
          /\ validation_results[j].validation_status = "FAIL"
          /\ validation_results[j].has_duplicates
          /\ validation_results[j].null_count = 0
          /\ validation_results[j].data_issues = <<>>

(***************************************************************************)
(* Claims about transform_data, under SpecTransform.                       *)
(***************************************************************************)
Returned == tpc = "returned" /\ features_df.ok

HasRequired(txn) ==
    txn.exists /\ txn.readable /\ required_columns \subseteq txn.columns

SourceIds == {customer_file.rows[i].customer_id : i \in 1..Len(customer_file.rows)}

TxnIds == {transaction_file.rows[i].customer_id : i \in 1..Len(transaction_file.rows)}

RowsOf(id) == {i \in 1..Len(features_df.rows) : features_df.rows[i].customer_id = id}

\* C2 as stated: a returned frame has exactly one row per distinct customer
\* identifier of the customer source, repeated identifiers included.
C2_OneRowPerDistinctId ==
    Returned /\ "customer_id" \in customer_file.columns =>
        /\ \A id \in SourceIds : Cardinality(RowsOf(id)) = 1
        /\ \A i \in 1..Len(features_df.rows) :
              features_df.rows[i].customer_id \in SourceIds

\* C2 amended: a returned frame has exactly one row per row of the customer
\* source, in the source's order and with its identifier; so it has one row per
\* distinct identifier exactly when the source repeats no identifier.
C2_OneRowPerSourceRow ==
    Returned =>
        /\ Len(features_df.rows) = Len(customer_file.rows)
        /\ \A i \in 1..Len(features_df.rows) :
              features_df.rows[i].customer_id = customer_file.rows[i].customer_id
        /\ "customer_id" \in customer_file.columns =>
              \A id \in SourceIds :
                 Cardinality(RowsOf(id)) =
                    Cardinality({i \in 1..Len(customer_file.rows) :
                                    customer_file.rows[i].customer_id = id})

\* a repeated identifier went through the merge, next to one without transactions
C2_Witness ==
    /\ Returned /\ HasRequired(transaction_file)
    /\ Len(customer_file.rows) = 2
    /\ customer_file.rows[1].customer_id \notin TxnIds
    /\ \E id \in TxnIds : Cardinality(RowsOf(id)) >= 1

NonNegativeOrNull(x) == IsNull(x) \/ NonNegative(x)

IsFuture(c) == c \in DOMAIN DaysAgo /\ DaysAgo[c] < 0

TxnsOf(id) ==
    {j \in 1..Len(transaction_file.rows) : transaction_file.rows[j].customer_id = id}

HasNegativeAmount(id) ==
    \E j \in TxnsOf(id) :
       IsIntCell(transaction_file.rows[j].amount)
       /\ IntText[transaction_file.rows[j].amount] < 0

RECURSIVE SumAmounts(_)
\* the sum of the amounts of the transaction rows whose indices are in S
SumAmounts(S) ==
    IF S = {} THEN 0
    ELSE LET j == CHOOSE k \in S : TRUE
         IN IntText[transaction_file.rows[j].amount] + SumAmounts(S \ {j})

WithAmount(id) == {j \in TxnsOf(id) : transaction_file.rows[j].amount # NA}

\* the aggregate of customer id, in the grouping and in the returned frame
AggregateIs(id, count, total, avg) ==
    /\ id \in DOMAIN features_df.transaction_features
    /\ LET a == features_df.transaction_features[id]
       IN /\ a.transaction_count = count
          /\ a.total_spent = total
          /\ a.avg_transaction_value = avg
    /\ \A i \in RowsOf(id) :
          /\ features_df.rows[i].transaction_count = count
          /\ features_df.rows[i].total_spent = total
          /\ features_df.rows[i].avg_transaction_value = avg

\* C4 as stated: for every customer identifier of a transaction frame with the
\* required columns, transaction_count is the number of its rows, total_spent
\* the sum of their amounts and avg_transaction_value their quotient, missing
\* amounts included.
C4_CountIsRowCount ==
    Returned /\ HasRequired(transaction_file) =>
        \A id \in TxnIds :
           LET n == Cardinality(TxnsOf(id))
               total == SumAmounts(WithAmount(id))
           IN AggregateIs(id, Num(n), Num(total), Frac(total, n))

\* C4 amended: transaction_count is the number of the identifier's rows whose
\* amount is not missing, total_spent the sum of those amounts (0 when there is
\* none), and avg_transaction_value is total_spent / transaction_count, null
\* when transaction_count is 0.
C4_CountIsNonNullCount ==
    Returned /\ HasRequired(transaction_file) =>
        \A id \in TxnIds :
           LET n == Cardinality(WithAmount(id))
               total == SumAmounts(WithAmount(id))
           IN AggregateIs(id, Num(n), Num(total),
                          IF n = 0 THEN NaN ELSE Frac(total, n))

\* a customer of the frame with one missing and one present amount
C4_Witness ==
    /\ Returned /\ HasRequired(transaction_file)
    /\ \E id \in TxnIds :
          /\ RowsOf(id) # {}
          /\ Cardinality(TxnsOf(id)) = 2
          /\ Cardinality(WithAmount(id)) = 1

\* C5: with a transaction file that has the required columns, every customer
\* of the customer source that is absent from the transaction source has null,
\* not zero, in total_spent, transaction_count, avg_transaction_value and
\* days_since_last_purchase, and the frame has these four columns.
C5_AbsentCustomersNull ==
    Returned /\ HasRequired(transaction_file) =>
        /\ TransactionColumns \subseteq Range(features_df.columns)
        /\ \A i \in 1..Len(features_df.rows) :
              customer_file.rows[i].customer_id \notin TxnIds =>
                 LET r == features_df.rows[i]
                 IN /\ IsNull(r.total_spent)
                    /\ IsNull(r.transaction_count)
                    /\ IsNull(r.avg_transaction_value)
                    /\ IsNull(r.days_since_last_purchase)

\* one customer with transactions and one without, after the merge
C5_Witness ==
    /\ Returned /\ HasRequired(transaction_file)
    /\ \E i, k \in 1..Len(features_df.rows) :
          /\ customer_file.rows[i].customer_id \notin TxnIds
          /\ customer_file.rows[k].customer_id \in TxnIds
          /\ ~IsNull(features_df.rows[k].total_spent)

LacksRequired(txn) ==
    txn.exists /\ txn.readable /\ ~(required_columns \subseteq txn.columns)

\* C6: when the transaction file is missing, or present without one of
\* customer_id / amount / transaction_date, transform_data on a readable
\* customer file returns a frame with as many rows as the customer source, in
\* which the four transaction features are null on every row.
C6_NoTransactionsAllNull ==
    /\ tpc = "returned"
    /\ customer_file.exists /\ customer_file.readable
    /\ ~transaction_file.exists \/ LacksRequired(transaction_file)
    =>
    /\ features_df.ok
    /\ Len(features_df.rows) = Len(customer_file.rows)
    /\ TransactionColumns \subseteq Range(features_df.columns)
    /\ \A i \in 1..Len(features_df.rows) :
          LET r == features_df.rows[i]
          IN /\ IsNull(r.total_spent)
             /\ IsNull(r.transaction_count)
             /\ IsNull(r.avg_transaction_value)
             /\ IsNull(r.days_since_last_purchase)

\* a transaction file without the amount column, and two customers
C6_Witness ==
    /\ Returned
    /\ LacksRequired(transaction_file)
    /\ "amount" \notin transaction_file.columns
    /\ Len(features_df.rows) = 2

\* what aborts transform_data on a readable customer file: an unparsable
\* transaction file, or a merge without the customer_id key
TransactionStepRaises ==
    \/ transaction_file.exists /\ ~transaction_file.readable
    \/ HasRequired(transaction_file) /\ "customer_id" \notin customer_file.columns

TransformMainInit == MainInit /\ ValIdle /\ VerIdle /\ StageIdle /\ OthersIdle

MainNext ==
    \/ CreateDatabaseSchema
    \/ MainTransformData
    \/ StoreTransformedData
    \/ NoFeaturesGenerated
    \/ GenerateTransformationSummary

SpecTransformMain == TransformMainInit /\ [][MainNext]_vars

\* C8: store_transformed_data is invoked, and an existing customer_features
\* table is changed, only by a step that follows a transform_data which
\* returned a frame: when the schema creation fails, the customer file is
\* absent or transform_data raises, the stage ends with no store call and the
\* existing table as it was.
C8_StoreOnlyAfterSuccess ==
    [][/\ (store_calls' # store_calls
             \/ (customer_features.exists /\ customer_features' # customer_features))
          => tpc = "transform_returned" /\ features_df.ok
       /\ tpc' \in {"schema_failed", "failed"}
          => store_calls' = 0 /\ ~features_df'.ok
             /\ (customer_features.exists => customer_features' = customer_features)
      ]_vars

\* transform_data raised on an existing customer file, and the stage ended
\* without a store call, the earlier table intact
C8_Witness ==
    /\ tpc = "failed"
    /\ customer_file.exists /\ customer_file.readable
    /\ ~features_df.ok
    /\ store_calls = 0
    /\ customer_features = OldTable

(***************************************************************************)
(* The specification of the versioning stage, and its claim.               *)
(***************************************************************************)
VersionInit == VerInit /\ ValIdle /\ TrIdle /\ StageIdle /\ OthersIdle

VerNext ==
    \/ CheckDvcInitialized
    \/ DvcInit
    \/ InitGitAdd
    \/ InitGitCommit
    \/ DvcAdd
    \/ GitAdd
    \/ GitCommit
    \/ GenerateVersionReport

SpecVersion == VersionInit /\ [][VerNext]_vars

Aborted(v) == v.pc = "done" /\ v.result = "False"

\* C9 as stated: after a non-zero exit of any of the tools the stage has
\* aborted: version_data has returned False.
C9_AnyFailureAborts ==
    ver.pc # "idle" /\ ver.last.rc # 0 => Aborted(ver)

\* C9 amended: a non-zero exit of dvc init, git add or git commit aborts the
\* stage: version_data returns False and no tracking, commit or report step
\* follows, the files tracked before staying tracked.  A non-zero exit of dvc
\* add or dvc status is logged and the stage goes on.
C9_CheckedFailureAborts ==
    [][/\ ver.pc # "done"
       /\ ver.tracked \subseteq ver'.tracked
       /\ ver'.last.rc # 0 /\ ver'.last.tool \in {"dvc init", "git add", "git commit"}
          => /\ Aborted(ver')
             /\ ver'.tracked = ver.tracked
             /\ ver'.commits = ver.commits
             /\ ver'.report = "none"
       /\ ver'.last.rc # 0 /\ ver'.last.tool \in {"dvc add", "dvc status"}
          => ~Aborted(ver')
      ]_vars

\* git commit failed after a file was tracked: the stage aborted, the file
\* still tracked and no report written
C9_Witness ==
    /\ Aborted(ver)
    /\ ver.last = [tool |-> "git commit", rc |-> 1]
    /\ ver.tracked # {}
    /\ ver.report = "none"

(***************************************************************************)
(* The specification of the stage entry points, and its claim.             *)
(***************************************************************************)
StagesInit == StageInit /\ ValIdle /\ TrIdle /\ VerIdle /\ OthersIdle

StageNext ==
    \/ OpSucceeds
    \/ OpFailsCaught
    \/ OpFailsUncaught
    \/ MainEnds

SpecStages == StagesInit /\ [][StageNext]_vars

\* C10: no failure of a database connection, a file read or write, a directory
\* listing or an external tool leaves the entry point of a stage as an exception.
C10_NoExceptionEscapes ==
    ~(/\ stage.pc = "exception"
      /\ stage.escaped \in {"db", "read", "write", "listdir", "tool"})
(***************************************************************************)
(* The specification of the ingestion stage, and its claim.                *)
(***************************************************************************)
IngestInit ==
    IngInit /\ ValIdle /\ TrIdle /\ VerIdle /\ StageIdle /\ RawIdle /\ FsIdle /\ ArtIdle

IngNext ==
    \/ IngMakedirs
    \/ IngestFromSql
    \/ IngestFromApi
    \/ IngReport

SpecIngest == IngestInit /\ [][IngNext]_vars

\* C11: whatever the SQL source did, the API source is attempted next, once,
\* with one request; each source's result is its own outcome; the run is
\* reported as completed successfully exactly when both sources succeeded; a
\* response whose status is not 200 is a failure of the API source that
\* writes no file.
C11_SourcesIndependent ==
    /\ ing.pc = "api" => ing.sql_calls = 1 /\ ENABLED IngestFromApi
    /\ ing.pc \in {"report", "done"} =>
          /\ ing.sql_calls = 1 /\ ing.api_calls = 1 /\ ing.requests = 1
          /\ ing.sql_success <=> ing.sql_outcome = "ok"
          /\ ing.api_success <=> ing.api_outcome = "ok"
          /\ ing.status_code \notin {NoResponse, 200} =>
                /\ ~ing.api_success
                /\ \A f \in ing.files : f.source # "transactions"
    /\ ing.pc = "done" =>
          (ing.report = "completed successfully"
              <=> ing.sql_success /\ ing.api_success)

\* the SQL source failed, the API source answered 200 and wrote its snapshot,
\* and the run is reported as completed with errors
C11_Witness ==
    /\ ing.pc = "done"
    /\ ~ing.sql_success /\ ing.api_success
    /\ ing.status_code = 200
    /\ ing.files = {Snapshot("transactions", ing.api_records)}
    /\ ing.report = "completed with errors"

(***************************************************************************)
(* The specification of the raw storage stage, and its claims.             *)
(***************************************************************************)
RawStorageInit ==
    RawInit /\ ValIdle /\ TrIdle /\ VerIdle /\ StageIdle /\ IngIdle /\ FsIdle /\ ArtIdle

RawNext ==
    \/ ReadAndAppend
    \/ StoreAsBackup

SpecRawStorage == RawStorageInit /\ [][RawNext]_vars

\* the number of calls so far that returned True
Successes == Len(rawst.stamps)

\* C12: between calls, after k calls that succeeded on the file, the table
\* holds k times the rows of the file: the rows of the file once per call, in
\* the order of the calls, each copy with the timestamp of its call; so no
\* earlier row was removed or changed, and a second run doubles the count.
C12_AppendKTimes ==
    rawst.pc = "call" =>
        LET n == Len(rawst.file)
        IN /\ Len(rawst.table) = Successes * n
           /\ \A j \in 1..Successes : \A i \in 1..n :
                 rawst.table[(j - 1) * n + i] =
                    [row |-> rawst.file[i], ingestion_timestamp |-> rawst.stamps[j]]

\* the file has rows and was stored twice: the table holds them twice
C12_Witness ==
    /\ rawst.pc = "call"
    /\ Successes = 2
    /\ Len(rawst.file) >= 1
    /\ Len(rawst.table) = 2 * Len(rawst.file)

\* C19: the backup copy is attempted exactly in the calls that appended the
\* rows, never after a failed read or append; a call returns True exactly when
\* it appended; a failed backup leaves the result True and the rows appended.
C19_BackupAfterAppend ==
    /\ rawst.pc = "backup" =>
          /\ rawst.last.appended
          /\ rawst.table # <<>> \/ rawst.file = <<>>
    /\ rawst.pc = "call" /\ rawst.calls > 0 =>
          /\ rawst.last.backup # "not attempted" <=> rawst.last.appended
          /\ rawst.last.returned = "True" <=> rawst.last.appended
          /\ ~rawst.last.appended => rawst.last.returned = "False"
          /\ Len(rawst.backups) <= Successes
          /\ rawst.last.backup = "failed" =>
                /\ rawst.last.returned = "True"
                /\ Len(rawst.table) = Successes * Len(rawst.file)

\* a call appended the rows of the file, its backup failed, and it returned True
C19_Witness ==
    /\ rawst.pc = "call"
    /\ rawst.last.backup = "failed"
    /\ rawst.last.returned = "True"
    /\ rawst.backups = <<>>
    /\ rawst.table # <<>>

(***************************************************************************)
(* The specification of the feature metadata catalog, and its claim.       *)
(***************************************************************************)
FeatureMetadataInit ==
    /\ FsInit({[exists |-> FALSE, rows |-> <<>>]})
    /\ ValIdle /\ TrIdle /\ VerIdle /\ StageIdle /\ IngIdle /\ RawIdle /\ ArtIdle

MetaNext == AddFeatureMetadata

SpecFeatureMetadata == FeatureMetadataInit /\ [][MetaNext]_vars

\* the indices of the successful calls whose name is n under the collation
CallsOf(n, collation) ==
    {i \in 1..Len(fstore.calls) : KeyEq(fstore.calls[i].feature_name, n, collation)}

Max(S) == CHOOSE x \in S : \A y \in S : y <= x

Min(S) == CHOOSE x \in S : \A y \in S : x <= y

SameKey(a, b) == KeyEq(a, b, fstore.collation)

\* C13 as stated: one metadata row per distinct feature name used, holding
\* what the most recent call for that name gave.
C13_OneRowPerName ==
    LET names == {fstore.calls[i].feature_name : i \in 1..Len(fstore.calls)}
    IN /\ Len(fstore.feature_metadata) = Cardinality(names)
       /\ \A n \in names :
             \E i \in 1..Len(fstore.feature_metadata) :
                fstore.feature_metadata[i] = fstore.calls[Max(CallsOf(n, "binary"))]

\* C13 amended: one metadata row per feature name used, two names being the
\* same when the unique key compares them equal under the column's collation
\* (case-insensitive by default); the row keeps the spelling of the first call
\* and holds the description, data type and source of the most recent call
\* for that name.
C13_OneRowPerKey ==
    LET meta == fstore.feature_metadata
    IN /\ \A i, j \in 1..Len(meta) :
             i # j => ~SameKey(meta[i].feature_name, meta[j].feature_name)
       /\ \A c \in 1..Len(fstore.calls) :
             \E i \in 1..Len(meta) :
                SameKey(meta[i].feature_name, fstore.calls[c].feature_name)
       /\ \A i \in 1..Len(meta) :
             LET of == CallsOf(meta[i].feature_name, fstore.collation)
             IN /\ of # {}
                /\ meta[i].feature_name = fstore.calls[Min(of)].feature_name
                /\ meta[i].description = fstore.calls[Max(of)].description
                /\ meta[i].data_type = fstore.calls[Max(of)].data_type
                /\ meta[i].source = fstore.calls[Max(of)].source

\* metadata was added twice for the same name, with another description the
\* second time: one row, with the second description
C13_Witness ==
    /\ Len(fstore.calls) = 2
    /\ fstore.calls[1].feature_name = fstore.calls[2].feature_name
    /\ fstore.calls[1].description = "d1" /\ fstore.calls[2].description = "d2"
    /\ Len(fstore.feature_metadata) = 1
    /\ fstore.feature_metadata[1].description = "d2"

(***************************************************************************)
(* The specification of the file artifacts, and its claim.                 *)
(***************************************************************************)
ArtifactsInit ==
    ArtInit /\ ValIdle /\ TrIdle /\ VerIdle /\ StageIdle /\ IngIdle /\ RawIdle /\ FsIdle

ArtNext ==
    \/ ArtTick
    \/ ArtIngest
    \/ ArtBackup
    \/ ArtValidatedCopy
    \/ ArtReport

SpecArtifacts == ArtifactsInit /\ [][ArtNext]_vars

\* C14: no stage run writes to a path that already holds a file.
C14_NoFileOverwritten == art.overwritten = {}

(***************************************************************************)
(* The validated copy (specification SpecValidate).                        *)
(***************************************************************************)
\* the cell of the copy holds the value of the cell of the raw file
SameValue(raw_cell, copy_cell) ==
    \/ copy_cell = raw_cell
    \/ IsIntCell(raw_cell) /\ copy_cell = FloatText[raw_cell]

FailedColumns ==
    {i \in 1..Len(validation_results) : validation_results[i].validation_status = "FAIL"}

\* C15: once the main has handled a readable raw file, the validated copy
\* exists and has the columns of the raw file and, in every column, as many
\* cells as the raw file, row by row with the same value, whatever the number
\* of columns whose status is FAIL.
C15_CopyKeepsEveryRow ==
    vpc = "done" /\ raw_file.readable =>
        /\ validated_copy.exists
        /\ Len(validated_copy.columns) = Len(raw_file.columns)
        /\ \A c \in 1..Len(raw_file.columns) :
              /\ validated_copy.columns[c].name = raw_file.columns[c].name
              /\ Len(validated_copy.columns[c].cells) = Len(raw_file.columns[c].cells)
              /\ \A i \in 1..Len(raw_file.columns[c].cells) :
                    SameValue(raw_file.columns[c].cells[i],
                              validated_copy.columns[c].cells[i])

\* a file of two rows whose two columns both failed validation was copied
\* with its two rows
C15_Witness ==
    /\ vpc = "done" /\ raw_file.readable
    /\ Len(raw_file.columns[1].cells) = 2
    /\ Cardinality(FailedColumns) = 2
    /\ validated_copy.exists
    /\ Len(validated_copy.columns[1].cells) = 2

(***************************************************************************)
(* The specification of feature retrieval, and its claims.                 *)
(***************************************************************************)
GetFeaturesInit ==
    /\ FsInit(FeatureTables)
    /\ ValIdle /\ TrIdle /\ VerIdle /\ StageIdle /\ IngIdle /\ RawIdle /\ ArtIdle

GetNext == GetFeatures

SpecGetFeatures == GetFeaturesInit /\ [][GetNext]_vars

Got == fstore.got

Called == Got.kind # "none"

\* C16: while the customer_features table does not exist, a call of
\* get_features returns a frame, and the frame has no rows, whatever its
\* argument: None, a string or a list.
C16_EmptyWhenTableMissing ==
    Called /\ ~fstore.customer_features.exists =>
        Got.kind = "frame" /\ Got.rows = <<>>

\* the table does not exist and get_features was called with a list of two
\* ids, no statement failing: an empty frame
C16_Witness ==
    /\ Called /\ ~fstore.customer_features.exists
    /\ Got.arg.type = "list" /\ Len(Got.arg.value) = 2
    /\ ~Got.failed
    /\ Got.kind = "frame" /\ Got.rows = <<>>

IsEmptyList(arg) == arg.type = "list" /\ arg.value = <<>>

IsEmptyString(arg) == arg.type = "str" /\ arg.value = ""

\* the ids an argument stands for, a single string being a one-element list
IdsOf(arg) == IF arg.type = "str" THEN {arg.value} ELSE Range(arg.value)

\* the rows of the table whose customer_id is one of ids under the collation
RowsWithIds(ids, collation) ==
    LET In(r) == \E id \in ids : KeyEq(r.customer_id, id, collation)
    IN SelectSeq(fstore.customer_features.rows, In)

\* C18 as stated: on an existing table, the rows whose customer_id is in the
\* ids for a string or a non-empty list, and all rows for None or an empty list.
C18_RowsOfTheIds ==
    Called /\ fstore.customer_features.exists =>
        Got.rows = IF Got.arg.type = "None" \/ IsEmptyList(Got.arg)
                   THEN fstore.customer_features.rows
                   ELSE RowsWithIds(IdsOf(Got.arg), "binary")

\* C18 amended: on an existing table and when no statement fails, the rows
\* whose customer_id equals one of the ids under the column's collation, for a
\* non-empty string or a non-empty list; all rows for None, an empty list and
\* the empty string.  When a statement fails the frame is empty.
C18_RowsOfTheIdsOrAll ==
    Called /\ fstore.customer_features.exists =>
        /\ Got.kind = "frame"
        /\ Got.rows =
              IF Got.failed THEN <<>>
              ELSE IF Got.arg.type = "None" \/ IsEmptyList(Got.arg)
                      \/ IsEmptyString(Got.arg)
              THEN fstore.customer_features.rows
              ELSE RowsWithIds(IdsOf(Got.arg), fstore.collation)

\* a table of two rows, asked for the id of one of them: that row alone
C18_Witness ==
    /\ Called /\ fstore.customer_features.exists /\ ~Got.failed
    /\ Len(fstore.customer_features.rows) = 2
    /\ Got.arg.type = "list" /\ Got.arg.value # <<>>
    /\ Len(Got.rows) = 1
    /\ Got.rows[1].customer_id \in Range(Got.arg.value)

(***************************************************************************)
(* The columns of the feature frame (specification SpecTransform).         *)
(***************************************************************************)
FixedOrder ==
    <<"customer_id", "tenure_months", "total_spent", "transaction_count",
      "avg_transaction_value", "days_since_last_purchase", "churn">>

Position(col) == CHOOSE i \in 1..Len(FixedOrder) : FixedOrder[i] = col

\* the columns are columns of the fixed list, in the order of the list, and
\* churn is among them exactly when the customer source has it
InFixedOrder(cols) ==
    /\ Range(cols) \subseteq Range(FixedOrder)
    /\ \A a, b \in 1..Len(cols) : a < b => Position(cols[a]) < Position(cols[b])
    /\ "churn" \in Range(cols) <=> "churn" \in customer_file.columns

\* C17 as stated: the columns of a returned frame are in the fixed order, and
\* a readable customer source gets its frame whichever listed column it lacks,
\* the transaction file being absent or readable.
C17_AbsentColumnNoError ==
    tpc = "returned" =>
        /\ features_df.ok => InFixedOrder(features_df.columns)
        /\ /\ customer_file.exists /\ customer_file.readable
           /\ ~(transaction_file.exists /\ ~transaction_file.readable)
           => features_df.ok

\* C17 amended: the columns of a returned frame are in the fixed order; a
\* customer source that lacks churn or customer_id still gets its frame,
\* except that one without customer_id gets none when the transaction file
\* has its required columns: the merge on customer_id raises.
C17_ColumnsInFixedOrder ==
    tpc = "returned" =>
        /\ features_df.ok => InFixedOrder(features_df.columns)
        /\ customer_file.exists /\ customer_file.readable /\ ~TransactionStepRaises
              => features_df.ok
        /\ /\ customer_file.exists /\ customer_file.readable
           /\ "customer_id" \notin customer_file.columns
           /\ HasRequired(transaction_file)
           => ~features_df.ok

\* a customer source with join_date alone: the frame has the five computed
\* columns, without customer_id, churn and join_date
C17_Witness ==
    /\ tpc = "returned" /\ features_df.ok
    /\ customer_file.columns = {"join_date"}
    /\ customer_file.rows # <<>>
    /\ features_df.columns =
          <<"tenure_months", "total_spent", "transaction_count",
            "avg_transaction_value", "days_since_last_purchase">>

====
